---- MODULE Spec2Model ----
(***************************************************************************)
(* Model of src/auto_deploy.py: the incremental-sync pipeline               *)
(*   main(config) -> load_articles_from_drive -> distribute_articles ->    *)
(*   publish calls -> return,                                               *)
(* with the processed-id ledger file (load_processed_files /               *)
(* save_processed_files) as the only state that survives a run.            *)
(* Names the file uses but does not define (PlatformConfig,                *)
(* get_google_drive_service, create_github_repo, git_push) are taken as    *)
(* collaborators defined elsewhere; what the file defines is modelled as   *)
(* Python executes it.                                                     *)
(*                                                                         *)
(* The file holds more than one script.  Besides the pipeline the module    *)
(* models the two DeployManager scripts of lines 35-293 and 530-765         *)
(* (SpecDeploy), two processes that run load_articles_from_drive over one   *)
(* ledger file (SpecRace), and single functions applied on their own to     *)
(* bounded inputs (SpecDist, SpecFn).                                       *)
(*                                                                         *)
(* A document is represented by its id (a number); the remote folder lists *)
(* its documents in the order they were added.  An article (the dict       *)
(* {'id','name','content'}) is represented by the id of its document.       *)
(***************************************************************************)
EXTENDS Integers, Sequences, FiniteSets, TLC

\* ------------------------------------------------------------------ bounds
MaxDocs == 3        \* documents that can ever exist in the remote folder
MaxPool == 11       \* largest pool given to distribute_articles on its own
MaxPermLen == 3     \* samples up to this length are enumerated in every order
MaxIds == 2         \* ids, and length of the id list, of a ledger file read on its own
MaxArticles == 2    \* HTML files in the articles directory of the DeployManager script
MaxUrls == 3        \* site URLs the hosting services hand out over all runs
MaxPages == 3       \* pages the Drive service is asked for in one paginated listing
MaxSite == 2        \* articles of a partition whose site files are built on their own
MaxRaceDocs == 2    \* documents of the folder two overlapping processes list
MaxLinkSite == 7    \* articles of a site whose footer links are drawn

\* ------------------------------------------------------- program constants
MAX_DEPLOY_PER_PLATFORM == 10   \* line 32
BroadcastCap == 10          \* min(10, len(all_articles)), line 1305
CreateRepoParams == 3       \* create_repo_with_content(repo_name, articles, cross_links)
MainRepoArgs == 2           \* main passes (repo_name, articles)
NETLIFY_TOKEN == FALSE      \* module global, None and never assigned
VERCEL_TOKEN == FALSE       \* module global, None and never assigned

Docs == 1..MaxDocs

\* ----------------------------------------------------------------- helpers
Range(s) == {s[i] : i \in 1..Len(s)}

NoDup(s) == \A i, j \in 1..Len(s) : i # j => s[i] # s[j]

Min(a, b) == IF a < b THEN a ELSE b

\* <<1, 2, ..., n>>
Iota(n) == [i \in 1..n |-> i]

\* the elements of set S (of numbers) in ascending order
RECURSIVE Ascending(_)
Ascending(S) ==
    IF S = {} THEN <<>>
    ELSE LET m == CHOOSE x \in S : \A y \in S : x <= y
         IN <<m>> \o Ascending(S \ {m})

Reverse(s) == [i \in 1..Len(s) |-> s[Len(s) + 1 - i]]

\* all injective sequences of length k over 1..n (orders of a draw of k positions)
Injections(k, n) == {f \in [1..k -> 1..n] : \A i, j \in 1..k : i # j => f[i] # f[j]}

\* ------------------------------------------------------- the ledger file
\* The file at config.processed_files_path: absent, holding a complete JSON
\* document {"fileIds": [...]}, or holding something json.load rejects (an
\* empty or partly written file).
AbsentFile == [state |-> "absent", ids |-> {}]
CorruptFile == [state |-> "corrupt", ids |-> {}]
ValidFile(S) == [state |-> "valid", ids |-> S]

\* What load_processed_files can find at the path: whether the file exists,
\* whether open(path, 'r') succeeds, whether json.load accepts the text and
\* gives an object or some other JSON value, whether the object has the key
\* 'fileIds', and the list stored under it (ids may repeat in a list).
LedgerIdLists == UNION {[1..n -> 1..MaxIds] : n \in 0..MaxIds}

LedgerContents == [exists : BOOLEAN, openOk : BOOLEAN, json : {"invalid", "list", "object"},
                   key : BOOLEAN, ids : LedgerIdLists]

\* how a call ends: by an exception or with a value, and whether logger.error ran
Raised == [raised |-> TRUE, value |-> {}, logged |-> FALSE]
Returned(v, logged) == [raised |-> FALSE, value |-> v, logged |-> logged]

\* the body of the try block, lines 964-967, when nothing catches: open raises
\* OSError, json.load raises JSONDecodeError, data.get raises AttributeError on
\* a value that is not an object
LoadTryBody(c) ==
    IF ~c.exists THEN Returned({}, FALSE)
    ELSE IF ~c.openOk \/ c.json # "object" THEN Raised
    ELSE Returned(IF c.key THEN {c.ids[i] : i \in 1..Len(c.ids)} ELSE {}, FALSE)

\* the function without its except branch
LoadOutcomeNoCatch(c) == LoadTryBody(c)

\* lines 961-970: the except branch logs, and the function returns set()
LoadOutcome(c) ==
    IF LoadTryBody(c).raised THEN Returned({}, TRUE) ELSE LoadTryBody(c)

\* the contents that stand for a ledger file of the pipeline
Contents(f) ==
    [exists |-> f.state # "absent", openOk |-> TRUE,
     json |-> IF f.state = "valid" THEN "object" ELSE "invalid",
     key |-> TRUE,
     ids |-> IF f.ids = {} THEN <<>>
             ELSE [i \in 1..Cardinality(f.ids) |->
                     CHOOSE x \in f.ids : Cardinality({y \in f.ids : y < x}) = i - 1]]

\* load_processed_files on a ledger file of the pipeline: the stored ids, or
\* the empty set when the file is absent or cannot be parsed (the except
\* branch logs and falls through).
load_processed_files(f) == IF f.state = "valid" THEN f.ids ELSE {}

\* the short form above is the function of lines 961-970 on such a file
LoadAgrees ==
    \A f \in {AbsentFile, CorruptFile} \cup {ValidFile(S) : S \in SUBSET (1..MaxIds)} :
        load_processed_files(f) = LoadOutcome(Contents(f)).value

\* open(path, 'w') truncates the file before anything is written.
OpenForWrite(f) == CorruptFile

\* json.dump of the whole set followed by the close of the with-block.
JsonDump(f, S) == ValidFile(S)

\* ------------------------------------------------------------------- state
VARIABLES
    folder,                 \* remote folder: the ids of its documents, in listing order
    file,                   \* the ledger file (config.processed_files_path)
    pc,                     \* position of the running process; "idle" between runs
    config,                 \* the PlatformConfig given to main
    processed_files,        \* load_articles_from_drive: the in-memory set
    files,                  \* load_articles_from_drive: the listing
    idx,                    \* load_articles_from_drive: next position of the for loop
    all_articles,           \* articles whose download succeeded, in listing order
    new_articles,           \* those of them whose id was not in processed_files
    distributed_articles,   \* main: the dict returned by distribute_articles
    platIdx,                \* main: position of the for loop over the dict
    netlify_urls,           \* main
    vercel_urls,            \* main
    successful_deployments, \* main
    exitStatus,             \* how the last call of main ended: "none", "True", "False",
                            \* "TypeError" (raised to the caller), "killed"
    startFile,              \* history: the ledger file when the current run started
    listing,                \* history: how the listing of this run went: "none", "ok", "failed"
    loaded,                 \* history: what load_processed_files returned in this run
    downloaded,             \* history: ids handed to download_file_content in this run
    githubPublishes,        \* history: times create_repo_with_content ran in this run
    delivered,              \* history: ids ever handed to the GitHub Pages adapter
    prev,                   \* history: how the previous run ended
    failed,                 \* history: ids whose conversion failed in this run
    attempted,              \* history: targets whose publish call was made in this run
    sitemap,                \* the file sitemap.html
    call,                   \* a function taken on its own: its name and arguments
    result,                 \* a function taken on its own: what it returned
    dpc,                    \* DeployManager script: position of the process, "off" between runs
    csv,                    \* config.csv as the process finds it
    variant,                \* which DeployManager script runs: "v1" (lines 35-293) or
                            \* "v2" (lines 530-765)
    trace,                  \* history: the calls of this process and how they ended
    articlesDir,            \* number of *.html files in ARTICLES_DIR
    run_articles,           \* DeployManager.run: number of articles selected
    cwd,                    \* current working directory: "base" or "temp" (inside temp_dir)
    temp_dir,               \* whether the directory temp_<time> of this run exists
    netlify_sites,          \* DeployManager.netlify_sites
    vercel_sites,           \* DeployManager.vercel_sites
    nextUrl,                \* the next URL a hosting service hands out
    exitCode,               \* exit status of the last process: "none", "0", "1"
    returnValue,            \* what run() gave: "none", "True", "False", "raised"
    network,                \* history: services this process sent a request to
    succeeded,              \* history: targets that reported a successful publish
    returned                \* history: every URL a deploy call ever returned

vars == <<folder, file, pc, config, processed_files, files, idx, all_articles,
          new_articles, distributed_articles, platIdx, netlify_urls, vercel_urls,
          successful_deployments, exitStatus, startFile, listing, loaded, downloaded,
          githubPublishes, delivered, prev, failed, attempted, sitemap, call, result,
          dpc, csv, variant, trace, articlesDir, run_articles, cwd, temp_dir, netlify_sites, vercel_sites,
          nextUrl, exitCode, returnValue, network, succeeded, returned>>

locals == <<processed_files, files, idx, all_articles, new_articles,
            distributed_articles, platIdx, netlify_urls, vercel_urls,
            successful_deployments>>

\* the variables of the pipeline, sitemap.html apart
program == <<folder, file, pc, config, processed_files, files, idx, all_articles,
             new_articles, distributed_articles, platIdx, netlify_urls, vercel_urls,
             successful_deployments, exitStatus, startFile, listing, loaded, downloaded,
             githubPublishes, delivered, prev, failed, attempted>>

history == <<startFile, listing, loaded, downloaded, githubPublishes, failed, attempted>>

\* the variables of the DeployManager script, sitemap.html apart
deployer == <<dpc, csv, variant, trace, articlesDir, run_articles, cwd, temp_dir, netlify_sites, vercel_sites,
              nextUrl, exitCode, returnValue, network, succeeded, returned>>

\* what the pipeline leaves alone
other == <<call, result, deployer>>

NoConfig == [gdrive_folder_id |-> FALSE]

Configs == [gdrive_folder_id : BOOLEAN]

NoPartition == [github |-> <<>>, netlify |-> <<>>, vercel |-> <<>>]

NoPrev == [end |-> "none", at |-> "idle", startFile |-> AbsentFile, unflushed |-> {},
           new |-> <<>>, nonempty |-> {}]

\* sitemap.html before anything wrote it
NoSitemap == [netlify |-> <<>>, vercel |-> <<>>]

NoCall == [fn |-> "none"]

NoResult == [fn |-> "none"]

\* config.csv: absent, or one row whose columns are missing, empty or set
CsvFields == {"github_token", "github_username", "netlify_token", "vercel_token"}

ConfigFiles ==
    {[exists |-> FALSE, row |-> [f \in CsvFields |-> "missing"]]}
    \cup {[exists |-> TRUE, row |-> r] : r \in [CsvFields -> {"missing", "empty", "set"}]}

NoConfigFile == [exists |-> FALSE, row |-> [f \in CsvFields |-> "missing"]]

\* the DeployManager script before its first run
DeployerOff ==
    /\ dpc = "off"
    /\ csv = NoConfigFile
    /\ variant = "v1"
    /\ trace = <<>>
    /\ articlesDir = 0
    /\ run_articles = 0
    /\ cwd = "base"
    /\ temp_dir = FALSE
    /\ netlify_sites = <<>>
    /\ vercel_sites = <<>>
    /\ nextUrl = 1
    /\ exitCode = "none"
    /\ returnValue = "none"
    /\ network = {}
    /\ succeeded = {}
    /\ returned = {}

OtherInit ==
    /\ call = NoCall
    /\ result = NoResult
    /\ DeployerOff

\* the values the locals of a process have before main assigns them
LocalsInit ==
    /\ processed_files = {}
    /\ files = <<>>
    /\ idx = 1
    /\ all_articles = <<>>
    /\ new_articles = <<>>
    /\ distributed_articles = NoPartition
    /\ platIdx = 1
    /\ netlify_urls = <<>>
    /\ vercel_urls = <<>>
    /\ successful_deployments = 0

Init ==
    /\ folder = <<>>
    /\ file = AbsentFile
    /\ pc = "idle"
    /\ config = NoConfig
    /\ LocalsInit
    /\ exitStatus = "none"
    /\ startFile = AbsentFile
    /\ listing = "none"
    /\ loaded = {}
    /\ downloaded = {}
    /\ githubPublishes = 0
    /\ delivered = {}
    /\ prev = NoPrev
    /\ failed = {}
    /\ attempted = {}
    /\ sitemap = NoSitemap
    /\ OtherInit

\* the pipeline at rest, for the specifications that do not run it
ProgramIdle ==
    /\ folder = <<>>
    /\ file = AbsentFile
    /\ config = NoConfig
    /\ LocalsInit
    /\ exitStatus = "none"
    /\ startFile = AbsentFile
    /\ listing = "none"
    /\ loaded = {}
    /\ downloaded = {}
    /\ githubPublishes = 0
    /\ delivered = {}
    /\ prev = NoPrev
    /\ failed = {}
    /\ attempted = {}

\* main is over (it returned, raised, or the process was killed): its locals are gone.
EndProcess(status) ==
    /\ pc' = "idle"
    /\ exitStatus' = status
    /\ processed_files' = {}
    /\ files' = <<>>
    /\ idx' = 1
    /\ all_articles' = <<>>
    /\ new_articles' = <<>>
    /\ distributed_articles' = NoPartition
    /\ platIdx' = 1
    /\ netlify_urls' = <<>>
    /\ vercel_urls' = <<>>
    /\ successful_deployments' = 0
    /\ prev' = [end |-> status, at |-> pc, startFile |-> startFile,
                unflushed |-> IF pc \in {"list", "loop", "save_open"}
                              THEN processed_files \ loaded ELSE {},
                new |-> new_articles,
                nonempty |-> {p \in DOMAIN distributed_articles :
                                 distributed_articles[p] # <<>>}]

\* generate_sitemap, lines 1741-1791: the page is built from the two lists it
\* is given and written with open(output_file, "w"), replacing what was there.
generate_sitemap(old, netlify, vercel) == [netlify |-> netlify, vercel |-> vercel]

\* ------------------------------------------------------------ environment
\* Somebody adds a document to the remote folder.  Ids are opaque, so the
\* next unused number stands for any new id.
AddDocument ==
    /\ Len(folder) < MaxDocs
    /\ folder' = Append(folder, Len(folder) + 1)
    /\ UNCHANGED <<other, sitemap, file, pc, config, locals, exitStatus, history, delivered,
                 prev>>

\* The process is killed (SIGKILL, runner timeout) wherever it is.  A kill
\* between open(path, 'w') and the end of json.dump leaves the truncated file.
Kill ==
    /\ pc # "idle"
    /\ EndProcess("killed")
    /\ UNCHANGED <<other, sitemap, folder, file, config, history, delivered>>

\* ------------------------------------------------------------ main starts
\* main(config), lines 1841-1846: the caller hands over a PlatformConfig; its
\* gdrive_folder_id is set or empty.
StartRun ==
    /\ pc = "idle"
    /\ \E c \in Configs : config' = c
    /\ startFile' = file
    /\ listing' = "none"
    /\ loaded' = {}
    /\ downloaded' = {}
    /\ githubPublishes' = 0
    /\ failed' = {}
    /\ attempted' = {}
    /\ pc' = "main"
    /\ exitStatus' = "none"
    /\ UNCHANGED <<other, sitemap, folder, file, locals, delivered, prev>>

\* ------------------------------------------------ load_articles_from_drive
\* lines 1317-1324: without a folder id the function returns ([], []) and main
\* returns False (lines 1849-1851); otherwise the ledger is loaded.
LoadProcessed ==
    /\ pc = "main"
    /\ IF ~config.gdrive_folder_id
       THEN /\ EndProcess("False")
            /\ UNCHANGED loaded
       ELSE /\ processed_files' = load_processed_files(file)
            /\ loaded' = load_processed_files(file)
            /\ pc' = "list"
            /\ UNCHANGED <<files, idx, all_articles, new_articles, distributed_articles,
                           platIdx, netlify_urls, vercel_urls, successful_deployments,
                           exitStatus, prev>>
    /\ UNCHANGED <<other, sitemap, folder, file, config, startFile, listing, downloaded,
                   githubPublishes, failed, attempted, delivered>>

\* a listing that hands on what it has when the request fails
get_files_from_folder_partial(ok) == folder

\* get_files_from_folder, lines 980-990: one list request; the files of the
\* answer, or [] from the except branch when the request fails.
get_files_from_folder(ok) == IF ok THEN folder ELSE <<>>

\* get_drive_files, lines 878-904: the answers the service gives to the list
\* requests of one call.  Page i holds the file i or no file, and says whether
\* a nextPageToken follows.
PageAnswers == [ok : BOOLEAN, n : {0, 1}, more : BOOLEAN]

PageRuns == {ps \in UNION {[1..k -> PageAnswers] : k \in 1..MaxPages} : ~ps[Len(ps)].more}

\* the while loop of lines 888-899 from page i on, all_files being what the
\* earlier pages gave; an exception leaves the loop for `return []`
RECURSIVE ListPages(_, _, _)
ListPages(pages, i, all_files) ==
    IF ~pages[i].ok THEN <<>>
    ELSE LET extended == IF pages[i].n = 1 THEN Append(all_files, i) ELSE all_files
         IN IF pages[i].more THEN ListPages(pages, i + 1, extended) ELSE extended

get_drive_files(pages) == ListPages(pages, 1, <<>>)

\* the call meets a failed request: on the first page or on a later one that
\* the loop gets to
ListingFails(pages) ==
    \E i \in 1..Len(pages) :
        /\ ~pages[i].ok
        /\ \A j \in 1..(i - 1) : pages[j].ok /\ pages[j].more

\* lines 1326-1333: an empty listing returns ([], []) before anything is saved.
ListFiles ==
    /\ pc = "list"
    /\ \E ok \in BOOLEAN :
        LET fs == get_files_from_folder(ok) IN
        /\ listing' = IF ok THEN "ok" ELSE "failed"
        /\ IF fs = <<>>
           THEN EndProcess("False")
           ELSE /\ files' = fs
                /\ idx' = 1
                /\ pc' = "loop"
                /\ UNCHANGED <<processed_files, all_articles, new_articles,
                               distributed_articles, platIdx, netlify_urls, vercel_urls,
                               successful_deployments, exitStatus, prev>>
    /\ UNCHANGED <<other, sitemap, folder, file, config, startFile, loaded, downloaded,
                   githubPublishes, failed, attempted, delivered>>

\* --------------------------------------------------- download_file_content
\* What the Drive service answers for one document: whether the metadata
\* request and the media (or export) request succeed, the mime type, and the
\* bytes of the body.  Bodies are the cases the function tells apart.
EmptyBody == ""
HtmlBody == "<html><body>hello</body></html>"
TextBody == "hello"
BadUtf8Body == "bytes that are not UTF-8"

Bodies == {EmptyBody, HtmlBody, TextBody, BadUtf8Body}

MimeTypes == {"text/html", "text/plain", "application/vnd.google-apps.document",
              "application/pdf"}

\* An answer is told apart only as far as the function reads it: no media
\* request follows a failed metadata request or an unsupported type, and no
\* bytes arrive from a failed media request.
Fetches ==
    {d \in [metaOk : BOOLEAN, mimeType : MimeTypes, mediaOk : BOOLEAN, bytes : Bodies] :
        /\ ~d.metaOk => d.mimeType = "application/pdf"
        /\ d.mimeType = "application/pdf" => ~d.mediaOk
        /\ ~d.mediaOk => d.bytes = EmptyBody}

\* the value None, a string returned as it was decoded, or a string wrapped in
\* the HTML skeleton of lines 1019-1028
None == [none |-> TRUE, text |-> "", wrapped |-> FALSE]
Str(t) == [none |-> FALSE, text |-> t, wrapped |-> FALSE]
Wrapped(t) == [none |-> FALSE, text |-> t, wrapped |-> TRUE]

\* `if content:` - None and the empty string are false; the skeleton is never empty
Truthy(c) == ~c.none /\ (c.wrapped \/ c.text # "")

\* line 1016: text_content.strip().lower().startswith(('<!doctype html', '<html'))
StartsWithHtml(t) == t = HtmlBody

\* line 995: the metadata request asks for fields='mimeType', and the answer
\* holds that field only
MetaFields == {"mimeType"}

\* lines 994-1042 for an answer whose metadata holds the given fields.  Every
\* exception (a failed request, UnicodeDecodeError, KeyError on file['name'])
\* is caught at line 1040 and gives None.
DownloadWith(d, fields) ==
    IF ~d.metaOk THEN None
    ELSE IF d.mimeType \in {"text/html", "application/vnd.google-apps.document"}
    THEN IF ~d.mediaOk \/ d.bytes = BadUtf8Body THEN None ELSE Str(d.bytes)
    ELSE IF d.mimeType = "text/plain"
    THEN IF ~d.mediaOk \/ d.bytes = BadUtf8Body THEN None
         ELSE IF StartsWithHtml(d.bytes) THEN Str(d.bytes)
         ELSE IF "name" \in fields THEN Wrapped(d.bytes)
         ELSE None
    ELSE None

\* the function when the metadata answer also carried the name
download_file_content_named(d) == DownloadWith(d, {"mimeType", "name"})

download_file_content(d) == DownloadWith(d, MetaFields)

\* a conversion that did not produce a document: the download failed, the
\* bytes are not UTF-8, the type is not supported, or the body is empty
ConversionFails(d) ==
    \/ ~d.metaOk
    \/ d.mimeType \notin {"text/html", "text/plain", "application/vnd.google-apps.document"}
    \/ ~d.mediaOk
    \/ d.bytes = BadUtf8Body
    \/ d.bytes = EmptyBody

\* a selection that does not consult the ledger
IsNewAlways(id, seen) == TRUE

\* line 1346: file['id'] not in processed_files
IsNew(id, seen) == id \notin seen

\* the loop body of a variant that writes the ledger at every mark
DownloadOneFlushing ==
    /\ pc = "loop"
    /\ \E d \in Fetches :
        LET id == files[idx]
            ok == Truthy(download_file_content(d))
        IN
        /\ downloaded' = downloaded \cup {id}
        /\ failed' = IF ConversionFails(d) THEN failed \cup {id} ELSE failed
        /\ all_articles' = IF ok THEN Append(all_articles, id) ELSE all_articles
        /\ new_articles' = IF ok /\ IsNew(id, processed_files)
                           THEN Append(new_articles, id) ELSE new_articles
        /\ processed_files' = IF ok /\ IsNew(id, processed_files)
                              THEN processed_files \cup {id} ELSE processed_files
        /\ file' = IF ok /\ IsNew(id, processed_files)
                   THEN ValidFile(processed_files \cup {id}) ELSE file
    /\ idx' = idx + 1
    /\ pc' = IF idx = Len(files) THEN "save_open" ELSE "loop"
    /\ UNCHANGED <<other, sitemap, folder, config, files, distributed_articles, platIdx,
                   netlify_urls, vercel_urls, successful_deployments, exitStatus,
                   startFile, listing, loaded, githubPublishes, attempted, delivered, prev>>

\* the loop body of a variant that publishes each article as soon as it is
\* downloaded
DownloadOnePublishing ==
    /\ pc = "loop"
    /\ \E d \in Fetches :
        LET id == files[idx]
            ok == Truthy(download_file_content(d))
        IN
        /\ downloaded' = downloaded \cup {id}
        /\ failed' = IF ConversionFails(d) THEN failed \cup {id} ELSE failed
        /\ all_articles' = IF ok THEN Append(all_articles, id) ELSE all_articles
        /\ new_articles' = IF ok /\ IsNew(id, processed_files)
                           THEN Append(new_articles, id) ELSE new_articles
        /\ processed_files' = IF ok /\ IsNew(id, processed_files)
                              THEN processed_files \cup {id} ELSE processed_files
    /\ attempted' = attempted \cup {"github"}
    /\ idx' = idx + 1
    /\ pc' = IF idx = Len(files) THEN "save_open" ELSE "loop"
    /\ UNCHANGED <<other, sitemap, folder, file, config, files, distributed_articles, platIdx,
                   netlify_urls, vercel_urls, successful_deployments, exitStatus,
                   startFile, listing, loaded, githubPublishes, delivered, prev>>

\* the loop body of a variant that marks every document it tried
DownloadOneMarkingAll ==
    /\ pc = "loop"
    /\ \E d \in Fetches :
        LET id == files[idx]
            ok == Truthy(download_file_content(d))
        IN
        /\ downloaded' = downloaded \cup {id}
        /\ failed' = IF ConversionFails(d) THEN failed \cup {id} ELSE failed
        /\ all_articles' = IF ok THEN Append(all_articles, id) ELSE all_articles
        /\ new_articles' = IF ok /\ IsNew(id, processed_files)
                           THEN Append(new_articles, id) ELSE new_articles
        /\ processed_files' = processed_files \cup {id}
    /\ idx' = idx + 1
    /\ pc' = IF idx = Len(files) THEN "save_open" ELSE "loop"
    /\ UNCHANGED <<other, sitemap, folder, file, config, files, distributed_articles, platIdx,
                   netlify_urls, vercel_urls, successful_deployments, exitStatus,
                   startFile, listing, loaded, githubPublishes, attempted, delivered, prev>>

\* lines 1335-1348, one iteration of the for loop: the article is kept when
\* download_file_content returned a non-empty string.
DownloadOne ==
    /\ pc = "loop"
    /\ \E d \in Fetches :
        LET id == files[idx]
            ok == Truthy(download_file_content(d))
        IN
        /\ downloaded' = downloaded \cup {id}
        /\ failed' = IF ConversionFails(d) THEN failed \cup {id} ELSE failed
        /\ all_articles' = IF ok THEN Append(all_articles, id) ELSE all_articles
        /\ new_articles' = IF ok /\ IsNew(id, processed_files)
                           THEN Append(new_articles, id) ELSE new_articles
        /\ processed_files' = IF ok /\ IsNew(id, processed_files)
                              THEN processed_files \cup {id} ELSE processed_files
    /\ idx' = idx + 1
    /\ pc' = IF idx = Len(files) THEN "save_open" ELSE "loop"
    /\ UNCHANGED <<other, sitemap, folder, file, config, files, distributed_articles, platIdx,
                   netlify_urls, vercel_urls, successful_deployments, exitStatus,
                   startFile, listing, loaded, githubPublishes, attempted, delivered, prev>>

\* save_processed_files, line 975: open(path, 'w').  When the open fails the
\* except branch logs and the file is as it was.
SaveOpen ==
    /\ pc = "save_open"
    /\ \E ok \in BOOLEAN :
        IF ok THEN /\ file' = OpenForWrite(file)
                   /\ pc' = "save_write"
              ELSE /\ file' = file
                   /\ pc' = "returned"
    /\ UNCHANGED <<other, sitemap, folder, config, locals, exitStatus, history, delivered, prev>>

\* save_processed_files, line 976: json.dump and the close of the file.  When a
\* write fails (disk full, I/O error) the except branch logs and the file stays
\* truncated or partly written.
SaveWrite ==
    /\ pc = "save_write"
    /\ \E ok \in BOOLEAN :
        file' = IF ok THEN JsonDump(file, processed_files) ELSE file
    /\ pc' = "returned"
    /\ UNCHANGED <<other, sitemap, folder, config, locals, exitStatus, history, delivered, prev>>

\* ----------------------------------------------------- distribute_articles
\* random.sample(population, k): k elements at k different positions, in the
\* order drawn.  Every draw of at most MaxPermLen elements is enumerated in
\* every order; a longer draw is enumerated for every set of positions, in
\* listing order and in reverse listing order.
Sample(population, k) ==
    IF k <= MaxPermLen
    THEN {[i \in 1..k |-> population[f[i]]] : f \in Injections(k, Len(population))}
    ELSE UNION {
           LET asc == Ascending(P) IN
           { [i \in 1..k |-> population[asc[i]]],
             [i \in 1..k |-> population[Reverse(asc)[i]]] }
           : P \in {Q \in SUBSET (1..Len(population)) : Cardinality(Q) = k} }

\* a count without the cap
ArticleCountNoCap(pool) == Len(pool)

\* line 1305
ArticleCount(pool) == Min(BroadcastCap, Len(pool))

\* a GitHub partition cut to the cap, and one that takes the whole pool
GithubCapped(all, new) == SubSeq(new, 1, Min(BroadcastCap, Len(new)))
GithubAll(all, new) == all

\* line 1302: github_articles = new_articles
GithubArticles(all, new) == new

\* a draw that may take the same position twice
BroadcastSampleRepeating(all) ==
    {IF Len(s) >= 2 THEN [s EXCEPT ![Len(s)] = s[1]] ELSE s :
        s \in Sample(all, ArticleCount(all))}

\* lines 1306-1307: the two broadcast draws
BroadcastSample(all) == Sample(all, ArticleCount(all))

\* lines 1293-1313: every dict the function can return
distribute_articles(all, new) ==
    { [github |-> GithubArticles(all, new), netlify |-> n, vercel |-> v] :
        n \in BroadcastSample(all), v \in BroadcastSample(all) }

\* ----------------------------------------------------------------- main
\* lines 1849-1854: no article at all is a failed run; otherwise the articles
\* are distributed.
Distribute ==
    /\ pc = "returned"
    /\ IF all_articles = <<>>
       THEN EndProcess("False")
       ELSE /\ distributed_articles' \in distribute_articles(all_articles, new_articles)
            /\ pc' = "gh1"
            /\ UNCHANGED <<processed_files, files, idx, all_articles, new_articles,
                           platIdx, netlify_urls, vercel_urls, successful_deployments,
                           exitStatus, prev>>
    /\ UNCHANGED <<other, sitemap, folder, file, config, history, delivered>>

\* A call binds when it supplies every required parameter; main supplies
\* MainRepoArgs arguments to create_repo_with_content, which requires
\* CreateRepoParams: the call raises TypeError before the body runs.
CallBinds(given, required) == given = required

\* create_github_repo and git_push decide the result of create_repo_with_content.
CreateRepoOutcomes == {"url", "None"}

\* create_netlify_site, lines 1628-1651: None without NETLIFY_TOKEN, else what
\* make_api_request gives.
CreateNetlifyOutcomes == IF NETLIFY_TOKEN THEN {"url", "None"} ELSE {"None"}

\* create_vercel_site, lines 1656-1691
CreateVercelOutcomes == IF VERCEL_TOKEN THEN {"url", "None"} ELSE {"None"}

\* lines 1855-1858: the first publish to GitHub Pages
PublishGithub1 ==
    /\ pc = "gh1"
    /\ IF distributed_articles.github = <<>>
       THEN /\ pc' = "nf1"
            /\ UNCHANGED <<locals, exitStatus, prev, githubPublishes, delivered, attempted>>
       ELSE /\ attempted' = attempted \cup {"github"}
            /\ IF CallBinds(MainRepoArgs, CreateRepoParams)
               THEN /\ \E r \in CreateRepoOutcomes : TRUE
                    /\ githubPublishes' = githubPublishes + 1
                    /\ delivered' = delivered \cup Range(distributed_articles.github)
                    /\ pc' = "nf1"
                    /\ UNCHANGED <<locals, exitStatus, prev>>
               ELSE /\ EndProcess("TypeError")
                    /\ UNCHANGED <<githubPublishes, delivered>>
    /\ UNCHANGED <<other, sitemap, folder, file, config, startFile, listing, loaded, downloaded,
                   failed>>

\* lines 1860-1863: the first publish to Netlify; the result is dropped
PublishNetlify1 ==
    /\ pc = "nf1"
    /\ distributed_articles.netlify # <<>> => \E r \in CreateNetlifyOutcomes : TRUE
    /\ attempted' = IF distributed_articles.netlify # <<>>
                    THEN attempted \cup {"netlify"} ELSE attempted
    /\ pc' = "vc1"
    /\ UNCHANGED <<other, sitemap, folder, file, config, locals, exitStatus, startFile, listing,
                   loaded, downloaded, githubPublishes, failed, delivered, prev>>

\* lines 1865-1868: the first publish to Vercel; the result is dropped
PublishVercel1 ==
    /\ pc = "vc1"
    /\ distributed_articles.vercel # <<>> => \E r \in CreateVercelOutcomes : TRUE
    /\ attempted' = IF distributed_articles.vercel # <<>>
                    THEN attempted \cup {"vercel"} ELSE attempted
    /\ pc' = "for"
    /\ platIdx' = 1
    /\ UNCHANGED <<other, sitemap, folder, file, config, processed_files, files, idx,
                   all_articles, new_articles, distributed_articles, netlify_urls,
                   vercel_urls, successful_deployments, exitStatus, startFile, listing, loaded,
                   downloaded, githubPublishes, failed, delivered, prev>>

\* the dict's keys in insertion order (lines 1309-1313)
Platforms == <<"github", "netlify", "vercel">>

\* lines 1880-1905, one iteration of the for loop over distributed_articles
ForPlatform ==
    /\ pc = "for"
    /\ LET platform == Platforms[platIdx]
           articles == distributed_articles[platform]
           next == /\ platIdx' = IF platIdx = 3 THEN 1 ELSE platIdx + 1
                   /\ pc' = IF platIdx = 3 THEN "sitemap" ELSE "for"
                   /\ UNCHANGED <<processed_files, files, idx, all_articles,
                                  new_articles, distributed_articles, exitStatus, prev>>
       IN
       /\ attempted' = IF articles # <<>> THEN attempted \cup {platform} ELSE attempted
       /\ IF articles = <<>>
          THEN /\ next
               /\ UNCHANGED <<netlify_urls, vercel_urls, successful_deployments,
                              githubPublishes, delivered>>
          ELSE IF platform = "github"
          THEN IF CallBinds(MainRepoArgs, CreateRepoParams)
               THEN \E r \in CreateRepoOutcomes :
                    /\ next
                    /\ githubPublishes' = githubPublishes + 1
                    /\ delivered' = delivered \cup Range(articles)
                    /\ successful_deployments' =
                           successful_deployments + (IF r = "url" THEN 1 ELSE 0)
                    /\ UNCHANGED <<netlify_urls, vercel_urls>>
               ELSE /\ EndProcess("TypeError")
                    /\ UNCHANGED <<githubPublishes, delivered>>
          ELSE IF platform = "netlify"
          THEN \E r \in CreateNetlifyOutcomes :
               /\ next
               /\ netlify_urls' = IF r = "url" THEN Append(netlify_urls, r) ELSE netlify_urls
               /\ successful_deployments' =
                      successful_deployments + (IF r = "url" THEN 1 ELSE 0)
               /\ UNCHANGED <<vercel_urls, githubPublishes, delivered>>
          ELSE \E r \in CreateVercelOutcomes :
               /\ next
               /\ vercel_urls' = IF r = "url" THEN Append(vercel_urls, r) ELSE vercel_urls
               /\ successful_deployments' =
                      successful_deployments + (IF r = "url" THEN 1 ELSE 0)
               /\ UNCHANGED <<netlify_urls, githubPublishes, delivered>>
    /\ UNCHANGED <<other, sitemap, folder, file, config, startFile, listing, loaded, downloaded,
                   failed>>

\* lines 1906-1916: the sitemap is written only when a broadcast publish
\* returned a URL; main returns successful_deployments > 0.
Finish ==
    /\ pc = "sitemap"
    /\ sitemap' = IF netlify_urls # <<>> \/ vercel_urls # <<>>
                  THEN generate_sitemap(sitemap, netlify_urls, vercel_urls)
                  ELSE sitemap
    /\ EndProcess(IF successful_deployments > 0 THEN "True" ELSE "False")
    /\ UNCHANGED <<other, folder, file, config, history, delivered>>

Next ==
    \/ AddDocument
    \/ Kill
    \/ StartRun
    \/ LoadProcessed
    \/ ListFiles
    \/ DownloadOne
    \/ SaveOpen
    \/ SaveWrite
    \/ Distribute
    \/ PublishGithub1
    \/ PublishNetlify1
    \/ PublishVercel1
    \/ ForPlatform
    \/ Finish

Spec == Init /\ [][Next]_vars

\* ------------------------------------- distribute_articles taken on its own
\* The function applied to every pool <<1..n>>, n <= MaxPool, and every
\* new_articles that is a tail of the pool (the whole pool and [] included);
\* for a pool of at most MaxPermLen articles, every sub-list of the pool.
DistInit ==
    /\ pc = "dist"
    /\ \E n \in 0..MaxPool :
        /\ all_articles = Iota(n)
        /\ \/ \E j \in 1..(n + 1) : new_articles = SubSeq(Iota(n), j, n)
           \/ /\ n <= MaxPermLen
              /\ \E P \in SUBSET (1..n) : new_articles = Ascending(P)
    /\ folder = <<>>
    /\ file = AbsentFile
    /\ config = NoConfig
    /\ processed_files = {}
    /\ files = <<>>
    /\ idx = 1
    /\ distributed_articles = NoPartition
    /\ platIdx = 1
    /\ netlify_urls = <<>>
    /\ vercel_urls = <<>>
    /\ successful_deployments = 0
    /\ exitStatus = "none"
    /\ startFile = AbsentFile
    /\ listing = "none"
    /\ loaded = {}
    /\ downloaded = {}
    /\ githubPublishes = 0
    /\ delivered = {}
    /\ prev = NoPrev
    /\ failed = {}
    /\ attempted = {}
    /\ sitemap = NoSitemap
    /\ OtherInit

DistApply ==
    /\ pc = "dist"
    /\ distributed_articles' \in distribute_articles(all_articles, new_articles)
    /\ pc' = "dist_done"
    /\ UNCHANGED <<other, sitemap, folder, file, config, processed_files, files, idx, all_articles,
                   new_articles, platIdx, netlify_urls, vercel_urls,
                   successful_deployments, exitStatus, history, delivered, prev>>

DistNext == DistApply

SpecDist == DistInit /\ [][DistNext]_vars

\* ------------------------- the DeployManager scripts, lines 35-293 and 530-765
\* python auto_deploy.py: config.csv and the articles directory are as the
\* process finds them; line 289 (line 698 in the second script) constructs the
\* DeployManager.
StartDeployer ==
    /\ dpc = "off"
    /\ csv' \in ConfigFiles
    /\ variant' \in {"v1", "v2"}
    /\ trace' = <<>>
    /\ articlesDir' \in 0..MaxArticles
    /\ dpc' = "init"
    /\ run_articles' = 0
    /\ cwd' = "base"
    /\ temp_dir' = FALSE
    /\ netlify_sites' = <<>>
    /\ vercel_sites' = <<>>
    /\ exitCode' = "none"
    /\ returnValue' = "none"
    /\ network' = {}
    /\ succeeded' = {}
    /\ UNCHANGED <<program, sitemap, call, result, nextUrl, returned>>

\* the process ends with the given status
Exit(code) ==
    /\ dpc' = "off"
    /\ exitCode' = code

\* What the script does with the value of run().  Lines 288-290 drop it and
\* the script falls off its end, so the interpreter exits with status 0;
\* main() of lines 694-711 calls sys.exit(1) unless the value is true.
ExitCodeAfterRun(v, value) ==
    IF v = "v1" THEN "0"
    ELSE IF value = "True" THEN "0" ELSE "1"

ReturnFromRun(value) ==
    /\ returnValue' = value
    /\ Exit(ExitCodeAfterRun(variant, value))

\* an exception that nothing catches: the interpreter prints the traceback
RaiseUncaught ==
    /\ returnValue' = "raised"
    /\ Exit("traceback")

\* lines 291-293 and 708-710: an exception that leaves run() or __init__ is
\* caught by `except Exception`, logged, and the script calls sys.exit(1)
RaiseToMain ==
    /\ returnValue' = "raised"
    /\ Exit("1")

\* __init__ and load_config, lines 36-50 and 531-545: sys.exit(1) without
\* config.csv.  Line 40 reads self.config['github_token'] / ['github_username']
\* and raises KeyError when the column is missing; an empty value is passed on
\* to GitHubSetup.  The second script reads no column in __init__.
DeployerInit ==
    /\ dpc = "init"
    /\ IF ~csv.exists
       THEN /\ Exit("1")
            /\ UNCHANGED returnValue
       ELSE IF /\ variant = "v1"
               /\ csv.row["github_token"] = "missing" \/ csv.row["github_username"] = "missing"
       THEN RaiseToMain
       ELSE /\ dpc' = "select"
            /\ UNCHANGED <<exitCode, returnValue>>
    /\ UNCHANGED <<program, sitemap, call, result, csv, variant, trace, articlesDir,
                   run_articles, cwd, temp_dir, netlify_sites, vercel_sites, nextUrl,
                   network, succeeded, returned>>

\* get_random_articles, lines 52-63: [] without articles, else a sample of
\* min(count, len(all_articles)) of them
get_random_articles(count, available) == Min(count, available)

\* run, lines 139-143 and 663-667; the first script goes on to create the
\* repository, the second to push_to_github
SelectArticles ==
    /\ dpc = "select"
    /\ run_articles' = get_random_articles(MAX_DEPLOY_PER_PLATFORM, articlesDir)
    /\ IF get_random_articles(MAX_DEPLOY_PER_PLATFORM, articlesDir) = 0
       THEN ReturnFromRun("False")
       ELSE /\ dpc' = IF variant = "v1" THEN "repo" ELSE "mkdir"
            /\ UNCHANGED <<exitCode, returnValue>>
    /\ UNCHANGED <<program, sitemap, call, result, csv, variant, trace, articlesDir, cwd,
                   temp_dir, netlify_sites, vercel_sites, nextUrl, network, succeeded,
                   returned>>

\* what GitHubSetup.create_repo can do: give the repository, give nothing, or
\* raise; it cannot create a repository without credentials
CreateRepoResults ==
    IF csv.row["github_token"] = "set" /\ csv.row["github_username"] = "set"
    THEN {"repo", "None", "raise"}
    ELSE {"None", "raise"}

\* run, lines 146-150
CreateRepo ==
    /\ dpc = "repo"
    /\ network' = network \cup {"github"}
    /\ \E r \in CreateRepoResults :
        /\ trace' = Append(trace, [call |-> "create_repo", gave |-> r])
        /\ IF r = "repo" THEN /\ dpc' = "mkdir"
                              /\ UNCHANGED <<exitCode, returnValue>>
           ELSE IF r = "None" THEN ReturnFromRun("False")
           ELSE RaiseToMain
    /\ UNCHANGED <<program, sitemap, call, result, csv, variant, articlesDir, run_articles,
                   cwd, temp_dir, netlify_sites, vercel_sites, nextUrl, succeeded,
                   returned>>

\* lines 200-204, the except branch of run in the first script: temp_dir is a
\* relative path, so temp_dir.exists() is answered from the current working
\* directory.  push_to_github (lines 657-659) removes nothing.
TempDirAfterExcept ==
    IF variant = "v1" /\ cwd = "base" THEN FALSE ELSE temp_dir

\* how preparing the directory can go; push_to_github builds repo_url from
\* self.config['github_token'] / ['github_username'] (line 642) after the copy
\* and before os.chdir, which raises KeyError when a column is missing
PrepareResults ==
    IF /\ variant = "v2"
       /\ csv.row["github_token"] = "missing" \/ csv.row["github_username"] = "missing"
    THEN {"mkdir fails", "copy fails", "KeyError"}
    ELSE {"ok", "mkdir fails", "copy fails"}

\* run, lines 153-161: temp_dir.mkdir is outside the try block, the copy of
\* the articles and create_index_html are inside it, and the except branch
\* removes the directory.  push_to_github, lines 632-643: mkdir and the copy
\* are both inside the try block, and its except branch removes nothing.
PrepareTempDir ==
    /\ dpc = "mkdir"
    /\ \E r \in PrepareResults :
        IF r = "ok"
        THEN /\ temp_dir' = TRUE
             /\ dpc' = "chdir"
             /\ UNCHANGED <<exitCode, returnValue>>
        ELSE IF r = "mkdir fails"
        THEN /\ temp_dir' = FALSE
             /\ IF variant = "v1" THEN RaiseToMain ELSE ReturnFromRun("False")
        ELSE /\ temp_dir' = (variant = "v2")     \* "copy fails" or "KeyError"
             /\ ReturnFromRun("False")
    /\ UNCHANGED <<program, sitemap, call, result, csv, variant, trace, articlesDir,
                   run_articles, cwd, netlify_sites, vercel_sites, nextUrl, network,
                   succeeded, returned>>

\* run, line 164; push_to_github, line 643
ChangeDir ==
    /\ dpc = "chdir"
    /\ cwd' = "temp"
    /\ dpc' = "git"
    /\ UNCHANGED <<program, sitemap, call, result, csv, variant, trace, articlesDir,
                   run_articles, temp_dir, netlify_sites, vercel_sites, nextUrl, exitCode,
                   returnValue, network, succeeded, returned>>

\* run, lines 165-171, and push_to_github, lines 645-650: git init, add,
\* commit, branch, remote add and push, each with check=True; a failed step
\* raises CalledProcessError into the except branch, from which run returns
\* False (push_to_github returns None and run returns False at line 689)
GitPush ==
    /\ dpc = "git"
    /\ \E r \in {"pushed", "local step failed", "push failed"} :
        /\ network' = IF r = "local step failed" THEN network ELSE network \cup {"git"}
        /\ trace' = Append(trace, [call |-> "git", gave |-> r])
        /\ IF r = "pushed"
           THEN /\ succeeded' = succeeded \cup {"github"}
                /\ dpc' = "cleanup"
                /\ UNCHANGED <<temp_dir, exitCode, returnValue>>
           ELSE /\ temp_dir' = TempDirAfterExcept
                /\ ReturnFromRun("False")
                /\ UNCHANGED succeeded
    /\ UNCHANGED <<program, sitemap, call, result, csv, variant, articlesDir, run_articles,
                   cwd, netlify_sites, vercel_sites, nextUrl, returned>>

\* run, lines 174-175: os.chdir("..") and shutil.rmtree(temp_dir)
Cleanup ==
    /\ dpc = "cleanup"
    /\ cwd' = "base"
    /\ temp_dir' = FALSE
    /\ dpc' = "netlify"
    /\ UNCHANGED <<program, sitemap, call, result, csv, variant, trace, articlesDir, run_articles,
                   netlify_sites, vercel_sites, nextUrl, exitCode, returnValue, network,
                   succeeded, returned>>

\* deploy_to_netlify / deploy_to_vercel, lines 65-135: a missing column raises
\* KeyError before any request and gives None; otherwise the request is sent,
\* and a URL can only come back for a token that is set
DeployResults(token) ==
    IF csv.row[token] = "set" /\ nextUrl <= MaxUrls THEN {"url", "None"} ELSE {"None"}

\* run, lines 180-182
DeployNetlify ==
    /\ dpc = "netlify"
    /\ network' = IF csv.row["netlify_token"] = "missing" THEN network
                  ELSE network \cup {"netlify"}
    /\ \E r \in DeployResults("netlify_token") :
        /\ trace' = Append(trace, [call |-> "deploy_to_netlify", gave |-> r])
        /\ IF r = "url"
           THEN /\ netlify_sites' = Append(netlify_sites, nextUrl)
                /\ nextUrl' = nextUrl + 1
                /\ returned' = returned \cup {nextUrl}
                /\ succeeded' = succeeded \cup {"netlify"}
           ELSE UNCHANGED <<netlify_sites, nextUrl, returned, succeeded>>
    /\ dpc' = "vercel"
    /\ UNCHANGED <<program, sitemap, call, result, csv, variant, articlesDir, run_articles, cwd,
                   temp_dir, vercel_sites, exitCode, returnValue>>

\* run, lines 184-186
DeployVercel ==
    /\ dpc = "vercel"
    /\ network' = IF csv.row["vercel_token"] = "missing" THEN network
                  ELSE network \cup {"vercel"}
    /\ \E r \in DeployResults("vercel_token") :
        /\ trace' = Append(trace, [call |-> "deploy_to_vercel", gave |-> r])
        /\ IF r = "url"
           THEN /\ vercel_sites' = Append(vercel_sites, nextUrl)
                /\ nextUrl' = nextUrl + 1
                /\ returned' = returned \cup {nextUrl}
                /\ succeeded' = succeeded \cup {"vercel"}
           ELSE UNCHANGED <<vercel_sites, nextUrl, returned, succeeded>>
    /\ dpc' = "sitemap"
    /\ UNCHANGED <<program, sitemap, call, result, csv, variant, articlesDir, run_articles, cwd,
                   temp_dir, netlify_sites, exitCode, returnValue>>

\* run, lines 193-198: the sitemap is written from the two lists of this
\* DeployManager inside the try block of run, which returns True, or False
\* from the except branch when the file cannot be written.  The second
\* script writes it in main(), lines 700-704, after run returned True; there
\* a failure to write is caught by line 708.
WriteSitemap ==
    /\ dpc = "sitemap"
    /\ \E written \in BOOLEAN :
        IF written
        THEN /\ sitemap' = generate_sitemap(sitemap, netlify_sites, vercel_sites)
             /\ ReturnFromRun("True")
        ELSE /\ UNCHANGED sitemap
             /\ IF variant = "v1" THEN ReturnFromRun("False") ELSE RaiseToMain
    /\ UNCHANGED <<program, call, result, csv, variant, trace, articlesDir, run_articles, cwd,
                   temp_dir, netlify_sites, vercel_sites, nextUrl, network, succeeded,
                   returned>>

DeployInit ==
    /\ pc = "deployer"
    /\ ProgramIdle
    /\ sitemap = NoSitemap
    /\ call = NoCall
    /\ result = NoResult
    /\ DeployerOff

DeployNext ==
    \/ StartDeployer
    \/ DeployerInit
    \/ SelectArticles
    \/ CreateRepo
    \/ PrepareTempDir
    \/ ChangeDir
    \/ GitPush
    \/ Cleanup
    \/ DeployNetlify
    \/ DeployVercel
    \/ WriteSitemap

SpecDeploy == DeployInit /\ [][DeployNext]_vars

\* ------------------------------------------------ functions taken on their own
\* A function of the file is called once with arguments drawn from a bounded
\* set; result holds what it returned.
LoadCalls == {[fn |-> "load_processed_files", arg |-> c] : c \in LedgerContents}

\* ---- the files of a site
\* An article is its id and its display name.  For the dicts of the pipeline
\* the file is <id>.html and the name is the Drive name; for the Paths of the
\* DeployManager the id is the stem, the file is <stem>.html, and the stem is
\* shown as the name.
FileName(id) == id \o ".html"

\* all lists of at most MaxSite articles with different ids
Partitions(ids, names) ==
    UNION {{p \in [1..n -> [id : ids, name : names]] :
               \A i, j \in 1..n : i # j => p[i].id # p[j].id} : n \in 0..MaxSite}

DriveArticles == Partitions({"1a2B", "3c4D", "5e6F"}, {"Lenses", "Frames"})

PathArticles ==
    {p \in Partitions({"lenses", "frames", "index"}, {"lenses", "frames", "index"}) :
        \A i \in 1..Len(p) : p[i].name = p[i].id}

\* the index page: one <li><a href=...>text</a></li> per article, in order
IndexEntries(arts) == [i \in 1..Len(arts) |-> [href |-> FileName(arts[i].id),
                                                text |-> arts[i].name]]

\* create_site_content, lines 1696-1736: the dict holds one key per article
\* and then 'index.html'
create_site_content(arts) ==
    [files |-> {FileName(arts[i].id) : i \in 1..Len(arts)} \cup {"index.html"},
     hasIndex |-> TRUE,
     index |-> IndexEntries(arts)]

\* DeployManager.run, lines 157-161: the articles are copied into temp_dir and
\* create_index_html (lines 206-234) writes temp_dir/index.html over whatever
\* is there
create_index_html(arts) ==
    [files |-> {FileName(arts[i].id) : i \in 1..Len(arts)} \cup {"index.html"},
     hasIndex |-> TRUE,
     index |-> IndexEntries(arts)]

\* DeployManager.push_to_github, lines 630-659: the articles are copied into
\* temp_dir and pushed; no index page is written
push_to_github(arts) ==
    [files |-> {FileName(arts[i].id) : i \in 1..Len(arts)},
     hasIndex |-> FALSE,
     index |-> <<>>]

SiteFunctions == {"create_site_content", "create_index_html", "push_to_github"}

SiteCalls ==
    {[fn |-> "create_site_content", arg |-> p] : p \in DriveArticles}
    \cup {[fn |-> f, arg |-> p] : f \in {"create_index_html", "push_to_github"},
                                 p \in PathArticles}

\* ---- footers
\* The content of an article, as far as the footer code tells contents apart:
\* whether it starts with <!doctype html, how many times "</body>" occurs in
\* it (a closing </body></html> stands at its end), and how many
\* <footer ...>...</footer> blocks it holds.
HtmlContents == [doctype : BOOLEAN, closes : {0, 1}, footers : {0, 1}]

\* create_site_content, lines 1716-1731, for an article with the given number
\* of other articles in its partition: str.replace puts the footer before
\* every "</body>", and nothing is removed first
SiteFooter(c, siblings) ==
    IF siblings = 0 THEN c ELSE [c EXCEPT !.footers = c.footers + c.closes]

\* prepare_satellite_content, lines 1486-1519: every <footer...>...</footer>
\* is removed (line 1495); a content without doctype is wrapped in a skeleton
\* (lines 1501-1512); the closing </body></html> at the end is cut (line 1515)
\* and footer_html + "</body></html>" is appended (line 1516)
SatelliteFooter(c) ==
    LET wrappedCloses == c.closes + (IF c.doctype THEN 0 ELSE 1)
        afterCut == IF wrappedCloses > 0 THEN wrappedCloses - 1 ELSE 0
    IN [doctype |-> TRUE, closes |-> afterCut + 1, footers |-> 1]

FooterFunctions == {"create_site_content footer", "prepare_satellite_content"}

FooterCalls ==
    {[fn |-> "create_site_content footer", arg |-> c, siblings |-> k] :
        c \in HtmlContents, k \in 0..MaxSite}
    \cup {[fn |-> "prepare_satellite_content", arg |-> c, siblings |-> k] :
             c \in HtmlContents, k \in 0..MaxSite}

\* one application of the called footer operation
Enrich(c) ==
    IF call.fn = "create_site_content footer" THEN SiteFooter(c, call.siblings)
    ELSE SatelliteFooter(c)

\* ---- conversions
\* get_drive_content, lines 1242-1291: the mime type is an argument, and the
\* title of the skeleton is the constant "Generated Content"
get_drive_content(d) ==
    IF d.mimeType \in {"text/html", "application/vnd.google-apps.document"}
    THEN IF ~d.mediaOk \/ d.bytes = BadUtf8Body THEN None ELSE Str(d.bytes)
    ELSE IF d.mimeType = "text/plain"
    THEN IF ~d.mediaOk \/ d.bytes = BadUtf8Body THEN None
         ELSE IF StartsWithHtml(d.bytes) THEN Str(d.bytes)
         ELSE Wrapped(d.bytes)
    ELSE None

\* download_drive_file, lines 906-956, as what it leaves in output_path when
\* it returns True (None: it returned False, or it wrote no file).  text/html
\* and the export of a Google document are written in binary mode as they
\* arrive, without decoding; text/plain is decoded, and wrapped with the title
\* output_path.stem unless it starts as HTML.
download_drive_file(d) ==
    IF d.mimeType \in {"text/html", "application/vnd.google-apps.document"}
    THEN IF ~d.mediaOk THEN None ELSE Str(d.bytes)
    ELSE IF d.mimeType = "text/plain"
    THEN IF ~d.mediaOk \/ d.bytes = BadUtf8Body THEN None
         ELSE IF StartsWithHtml(d.bytes) THEN Str(d.bytes)
         ELSE Wrapped(d.bytes)
    ELSE None

ConvertFunctions == {"download_file_content", "get_drive_content", "download_drive_file"}

ConvertCalls ==
    {[fn |-> "convert", of |-> f, arg |-> d] : f \in ConvertFunctions, d \in Fetches}

Convert(f, d) ==
    IF f = "download_file_content" THEN download_file_content(d)
    ELSE IF f = "get_drive_content" THEN get_drive_content(d)
    ELSE download_drive_file(d)

\* ---- footer links
\* The articles of one site are numbered 1..site; a link is to one of them or
\* to one of the cross links, which lead to other sites.
InternalLink(id) == [cross |-> FALSE, id |-> id]
CrossLink(id) == [cross |-> TRUE, id |-> id]

\* random.randint(4, 6), line 1719
LinkCounts == 4..6

\* create_site_content, lines 1716-1720: the other articles of the site, and
\* a sample of min(len(other_articles), random.randint(4, 6)) of them; no
\* footer without other articles (line 1717).  cross_links is not used.
SiteLinks(site, article) ==
    LET other_articles == SelectSeq(Iota(site), LAMBDA a : a # article)
    IN IF other_articles = <<>> THEN {[footer |-> FALSE, links |-> <<>>]}
       ELSE {[footer |-> TRUE, links |-> [i \in 1..Len(l) |-> InternalLink(l[i])]] :
                l \in UNION {Sample(other_articles, Min(Len(other_articles), k)) :
                                k \in LinkCounts}}

\* generate_footer_links, lines 1458-1472, with its defaults internal_count = 4
\* and cross_count = 1: a sample of the articles of the platform, a sample of
\* the cross links, and random.shuffle of the two together
generate_footer_links(site, cross) ==
    LET internal_count == 4
        cross_count == 1
        internal == Sample(Iota(site), Min(internal_count, site))
        crossed == Sample(Iota(cross), Min(cross_count, cross))
    IN UNION {Sample(both, Len(both)) :
                both \in {[i \in 1..Len(n) |-> InternalLink(n[i])]
                            \o [i \in 1..Len(c) |-> CrossLink(c[i])] :
                          n \in internal, c \in crossed}}

\* prepare_satellite_content, lines 1484-1516: one footer_html is built from
\* footer_links before the loop and appended to every article
SatelliteLinks(site, cross, article) ==
    {[footer |-> TRUE, links |-> l] : l \in generate_footer_links(site, cross)}

LinkCalls ==
    {[fn |-> "footer links", of |-> f, site |-> n, article |-> a, cross |-> c] :
        f \in {"create_site_content", "prepare_satellite_content"},
        n \in 1..MaxLinkSite, a \in 1..MaxLinkSite, c \in 0..1}

\* ----------------------------------------------------------- make_api_request
\* line 870
MAX_RETRIES == 3

\* What one HTTP attempt can give: a response with a status code, or a
\* requests.RequestException (connection error, timeout).  The body of a 200
\* or 201 answer of the hosting API is a JSON document.
StatusOk == {"200", "201"}

AuthFailures == {"401", "403"}

Rejections == {"422"}

Transient == {"429", "500", "RequestException"}

Answers == StatusOk \cup AuthFailures \cup Rejections \cup Transient

\* what the server would give to successive attempts, one more than the
\* function is allowed to make
AnswerLists == [1..(MAX_RETRIES + 1) -> Answers]

ApiCalls == {[fn |-> "make_api_request", arg |-> a] : a \in AnswerLists}

\* response.json() of the given attempt, and the None of line 1623
Body(attempt) == [none |-> FALSE, attempt |-> attempt]
NoBody == [none |-> TRUE, attempt |-> 0]

\* lines 1605-1623: the loop from the given attempt (counted from 0 as in the
\* code) with the sleeps made so far; `limit` is the end of the range
RECURSIVE RequestLoop(_, _, _, _)
RequestLoop(answers, attempt, limit, sleeps) ==
    IF attempt >= limit
    THEN [value |-> NoBody, attempts |-> attempt, sleeps |-> sleeps]
    ELSE IF answers[attempt + 1] \in StatusOk
    THEN [value |-> Body(attempt + 1), attempts |-> attempt + 1, sleeps |-> sleeps]
    ELSE RequestLoop(answers, attempt + 1, limit,
                     IF attempt < limit - 1 THEN Append(sleeps, 2 ^ attempt) ELSE sleeps)

\* a loop that goes on for as long as the server answers
make_api_request_unbounded(answers) == RequestLoop(answers, 0, Len(answers), <<>>)

make_api_request(answers) == RequestLoop(answers, 0, MAX_RETRIES, <<>>)

FnInit ==
    /\ pc = "fn"
    /\ ProgramIdle
    /\ sitemap = NoSitemap
    /\ \/ call \in LoadCalls
       \/ call \in SiteCalls
       \/ call \in FooterCalls
       \/ call \in ApiCalls
       \/ call \in {c \in LinkCalls : c.article <= c.site}
       \/ call \in {c \in ConvertCalls : c.of # "download_file_content" => c.arg.metaOk}
    /\ result = NoResult
    /\ DeployerOff

ApplyLoad ==
    /\ pc = "fn"
    /\ call.fn = "load_processed_files"
    /\ result = NoResult
    /\ result' = [fn |-> call.fn, out |-> LoadOutcome(call.arg)]
    /\ UNCHANGED <<program, sitemap, call, deployer>>

ApplySite ==
    /\ pc = "fn"
    /\ call.fn \in SiteFunctions
    /\ result = NoResult
    /\ result' = [fn |-> call.fn,
                  out |-> IF call.fn = "create_site_content" THEN create_site_content(call.arg)
                          ELSE IF call.fn = "create_index_html" THEN create_index_html(call.arg)
                          ELSE push_to_github(call.arg)]
    /\ UNCHANGED <<program, sitemap, call, deployer>>

\* the footer operation applied to the article
ApplyFooter ==
    /\ pc = "fn"
    /\ call.fn \in FooterFunctions
    /\ result = NoResult
    /\ result' = [fn |-> call.fn, times |-> 1, before |-> call.arg, out |-> Enrich(call.arg)]
    /\ UNCHANGED <<program, sitemap, call, deployer>>

\* the footer operation applied to its own output
ApplyFooterAgain ==
    /\ pc = "fn"
    /\ result.fn \in FooterFunctions
    /\ result.times = 1
    /\ result' = [fn |-> call.fn, times |-> 2, before |-> result.out,
                  out |-> Enrich(result.out)]
    /\ UNCHANGED <<program, sitemap, call, deployer>>

ApplyApi ==
    /\ pc = "fn"
    /\ call.fn = "make_api_request"
    /\ result = NoResult
    /\ result' = [fn |-> call.fn, out |-> make_api_request(call.arg)]
    /\ UNCHANGED <<program, sitemap, call, deployer>>

\* one document converted by one of the three functions
ApplyConvert ==
    /\ pc = "fn"
    /\ call.fn = "convert"
    /\ result = NoResult
    /\ result' = [fn |-> call.fn, out |-> Convert(call.of, call.arg)]
    /\ UNCHANGED <<program, sitemap, call, deployer>>

\* the footer of one article of the site
ApplyLinks ==
    /\ pc = "fn"
    /\ call.fn = "footer links"
    /\ result = NoResult
    /\ \E f \in IF call.of = "create_site_content"
                 THEN SiteLinks(call.site, call.article)
                 ELSE SatelliteLinks(call.site, call.cross, call.article) :
            result' = [fn |-> call.fn, footer |-> f.footer, links |-> f.links]
    /\ UNCHANGED <<program, sitemap, call, deployer>>

FnNext ==
    \/ ApplyLoad
    \/ ApplySite
    \/ ApplyFooter
    \/ ApplyFooterAgain
    \/ ApplyApi
    \/ ApplyLinks
    \/ ApplyConvert

SpecFn == FnInit /\ [][FnNext]_vars

\* ------------------------------------ two processes over one ledger file
\* Two processes run load_articles_from_drive (lines 1322-1351) against the
\* same folder and the same config.processed_files_path.  Nothing in the file
\* locks the ledger or merges what is written to it: each process loads the
\* ids into a set of its own, adds to that set while it downloads, and writes
\* the whole set back at the end.
Runs == {1, 2}

RaceDocs == 1..MaxRaceDocs

RaceFolder == [i \in 1..MaxRaceDocs |-> i]

\* a process that has not started, and one that is over
RunIdle == [at |-> "idle", processed |-> {}, todo |-> <<>>, new |-> {}]
RunDone == [at |-> "done", processed |-> {}, todo |-> <<>>, new |-> {}]

Active(run) == run.at \in {"download", "save_open", "save_write"}

NoRaceHistory ==
    [selected |-> [d \in RaceDocs |-> {}],   \* the processes that took d as new
     saved |-> {},                           \* every id a completed save has written
     overlapped |-> FALSE,                   \* two processes were at work at once
     saveFailed |-> FALSE]                   \* a save failed to open or to write

\* what the race leaves alone
unshared == <<folder, pc, config, locals, exitStatus, history, delivered, prev, sitemap,
              deployer>>

RaceInit ==
    /\ pc = "race"
    /\ folder = RaceFolder
    /\ file \in {AbsentFile} \cup {ValidFile(S) : S \in SUBSET RaceDocs}
    /\ config = NoConfig
    /\ LocalsInit
    /\ exitStatus = "none"
    /\ startFile = AbsentFile
    /\ listing = "none"
    /\ loaded = {}
    /\ downloaded = {}
    /\ githubPublishes = 0
    /\ delivered = {}
    /\ prev = NoPrev
    /\ failed = {}
    /\ attempted = {}
    /\ sitemap = NoSitemap
    /\ call = [r \in Runs |-> RunIdle]
    /\ result = NoRaceHistory
    /\ DeployerOff

\* a process that starts with an empty set whatever the file holds
RaceLoadNothing(r) ==
    /\ call[r].at = "idle"
    /\ \E ok \in BOOLEAN :
        call' = [call EXCEPT ![r] =
                    IF ok THEN [at |-> "download", processed |-> {},
                                todo |-> folder, new |-> {}]
                    ELSE RunDone]
    /\ result' = [result EXCEPT !.overlapped = @ \/ \E q \in Runs \ {r} : Active(call[q])]
    /\ UNCHANGED <<file, unshared>>

\* lines 1324-1330: load_processed_files, then get_files_from_folder; an empty
\* or failed listing returns ([], []) without a save
RaceLoad(r) ==
    /\ call[r].at = "idle"
    /\ \E ok \in BOOLEAN :
        call' = [call EXCEPT ![r] =
                    IF ok THEN [at |-> "download", processed |-> load_processed_files(file),
                                todo |-> folder, new |-> {}]
                    ELSE RunDone]
    /\ result' = [result EXCEPT !.overlapped = @ \/ \E q \in Runs \ {r} : Active(call[q])]
    /\ UNCHANGED <<file, unshared>>

\* lines 1335-1348, one turn of the loop: the document is downloaded; with a
\* content it is new when its id is not in the set of this process, and the
\* id is added to that set (in memory only)
RaceDownload(r) ==
    /\ call[r].at = "download"
    /\ call[r].todo # <<>>
    /\ LET d == Head(call[r].todo)
           rest == Tail(call[r].todo)
       IN \E content \in BOOLEAN :
            IF content /\ d \notin call[r].processed
            THEN /\ call' = [call EXCEPT ![r].todo = rest,
                                         ![r].new = @ \cup {d},
                                         ![r].processed = @ \cup {d}]
                 /\ result' = [result EXCEPT !.selected[d] = @ \cup {r}]
            ELSE /\ call' = [call EXCEPT ![r].todo = rest]
                 /\ UNCHANGED result
    /\ UNCHANGED <<file, unshared>>

\* line 1352 reached: the loop is over and save_processed_files is called
RaceLoopEnds(r) ==
    /\ call[r].at = "download"
    /\ call[r].todo = <<>>
    /\ call' = [call EXCEPT ![r].at = "save_open"]
    /\ UNCHANGED <<file, result, unshared>>

\* save_processed_files, line 975: open(path, 'w')
RaceSaveOpen(r) ==
    /\ call[r].at = "save_open"
    /\ \E ok \in BOOLEAN :
        IF ok THEN /\ file' = OpenForWrite(file)
                   /\ call' = [call EXCEPT ![r].at = "save_write"]
                   /\ UNCHANGED result
              ELSE /\ call' = [call EXCEPT ![r] = RunDone]
                   /\ result' = [result EXCEPT !.saveFailed = TRUE]
                   /\ UNCHANGED file
    /\ UNCHANGED unshared

\* save_processed_files, line 976: json.dump of the set of this process
RaceSaveWrite(r) ==
    /\ call[r].at = "save_write"
    /\ \E ok \in BOOLEAN :
        IF ok THEN /\ file' = JsonDump(file, call[r].processed)
                   /\ result' = [result EXCEPT !.saved = @ \cup call[r].processed]
              ELSE /\ result' = [result EXCEPT !.saveFailed = TRUE]
                   /\ UNCHANGED file
    /\ call' = [call EXCEPT ![r] = RunDone]
    /\ UNCHANGED unshared

RaceNext ==
    \E r \in Runs :
        \/ RaceLoad(r)
        \/ RaceDownload(r)
        \/ RaceLoopEnds(r)
        \/ RaceSaveOpen(r)
        \/ RaceSaveWrite(r)

SpecRace == RaceInit /\ [][RaceNext]_vars

\* The process runs each step to completion unless it is killed, and the
\* scheduler starts the next run when none is in progress.
FairSpec ==
    /\ Spec
    /\ WF_vars(StartRun)
    /\ WF_vars(LoadProcessed)
    /\ WF_vars(ListFiles)
    /\ WF_vars(DownloadOne)
    /\ WF_vars(SaveOpen)
    /\ WF_vars(SaveWrite)
    /\ WF_vars(Distribute)
    /\ WF_vars(PublishGithub1)
    /\ WF_vars(PublishNetlify1)
    /\ WF_vars(PublishVercel1)
    /\ WF_vars(ForPlatform)
    /\ WF_vars(Finish)

\* ------------------------------------------------------------------ claims
\* the ids the ledger file durably holds: what a load of it returns
Durable(f) == load_processed_files(f)

Distributed == pc \in {"gh1", "nf1", "vc1", "for", "sitemap"}

MainEnded == pc = "idle" /\ prev.end \in {"True", "False", "TypeError"}

\* C1: a document whose id is in the durable ProcessedSet when a run starts is
\* never selected as new in that run and never placed in the run's GitHub
\* partition, which is new_articles.
C1_NoDuplicateIncremental ==
    /\ loaded \subseteq Durable(startFile)
    /\ pc \in {"list", "loop", "save_open", "save_write", "returned"} \cup
              {"gh1", "nf1", "vc1", "for", "sitemap"}
          => loaded = Durable(startFile)
    /\ Range(new_articles) \cap Durable(startFile) = {}
    /\ Distributed =>
          /\ Range(distributed_articles.github) \cap Durable(startFile) = {}
          /\ distributed_articles.github = new_articles

\* C1 witness: a run whose pool holds an already processed document and whose
\* GitHub partition is not empty.
C1_Witness ==
    /\ pc = "gh1"
    /\ distributed_articles.github # <<>>
    /\ Range(all_articles) \cap Durable(startFile) # {}

C3_PublishedExactlyOnce ==
    (MainEnded /\ prev.new # <<>>) => githubPublishes = 1

\* C4 as stated: every id that is durably marked processed is eventually
\* delivered to the GitHub Pages adapter.
C4_EventuallyDelivered ==
    \A d \in Docs : (d \in Durable(file)) ~> (d \in delivered)

\* C8: marks made in memory by a run that is killed before
\* save_processed_files leave the file as it was, and the next load returns the
\* set that was durable before, without the unflushed ids.
C8_UnflushedMarksLost ==
    (prev.end = "killed" /\ prev.at \in {"list", "loop", "save_open"})
        => /\ pc \in {"idle", "main"} =>
                /\ file = prev.startFile
                /\ prev.unflushed \cap Durable(file) = {}
           /\ pc = "list" =>
                /\ processed_files = Durable(prev.startFile)
                /\ prev.unflushed \cap processed_files = {}

\* C8 witness: the load of the run after such a kill, with an unflushed mark
\* and a non-empty durable set.
C8_Witness ==
    /\ pc = "list"
    /\ prev.end = "killed"
    /\ prev.at \in {"loop", "save_open"}
    /\ prev.unflushed # {}
    /\ processed_files # {}

\* C9 as stated: at every point of save_processed_files the file holds the
\* complete previous set or the complete new set.
C9_AtomicFlush ==
    pc \in {"save_open", "save_write", "returned"}
        => \/ Durable(file) = Durable(startFile)
           \/ Durable(file) = processed_files

\* C10 as stated: when a run is over, every id that was durable before it is
\* still durable.
C10_OnlyGrows ==
    MainEnded => Durable(prev.startFile) \subseteq Durable(file)

\* C5: each broadcast partition has min(10, |pool|) articles: at most 10, the
\* whole pool when it has fewer than 10, none when it is empty.
C5_BroadcastSize ==
    pc = "dist_done" =>
        \A t \in {"netlify", "vercel"} :
            LET part == distributed_articles[t] IN
            /\ Len(part) <= 10
            /\ Len(all_articles) >= 10 => Len(part) = 10
            /\ Len(all_articles) < 10 =>
                  /\ Len(part) = Len(all_articles)
                  /\ Range(part) = Range(all_articles)
            /\ all_articles = <<>> => part = <<>>

\* C5 witness: a pool of more than 10 articles cut to 10.
C5_Witness ==
    /\ pc = "dist_done"
    /\ Len(all_articles) > 10
    /\ Len(distributed_articles.netlify) = 10
    /\ Len(distributed_articles.vercel) = 10

\* C6: a broadcast partition holds only articles of the pool and none twice.
C6_WithoutReplacement ==
    pc = "dist_done" =>
        \A t \in {"netlify", "vercel"} :
            /\ Range(distributed_articles[t]) \subseteq Range(all_articles)
            /\ NoDup(distributed_articles[t])

\* C6 witness: two independent draws, different from each other and sharing
\* an article.
C6_Witness ==
    /\ pc = "dist_done"
    /\ Range(distributed_articles.netlify) # Range(distributed_articles.vercel)
    /\ Range(distributed_articles.netlify) \cap Range(distributed_articles.vercel) # {}

\* C7: the GitHub partition is new_articles: same elements in the same order,
\* however many there are.
C7_GithubVerbatim ==
    pc = "dist_done" => distributed_articles.github = new_articles

\* C7 witness: more than 10 new articles, all of them in the partition.
C7_Witness ==
    /\ pc = "dist_done"
    /\ Len(new_articles) > 10
    /\ Len(distributed_articles.github) = Len(new_articles)

\* C11: load_processed_files never raises; for a file that is absent, cannot
\* be opened or does not hold valid JSON it returns the empty set, logging the
\* error it met (an absent file is no error); for a valid file it returns
\* exactly the ids stored under 'fileIds'.
C11_LoadNeverRaises ==
    /\ LoadAgrees
    /\ result.fn = "load_processed_files" =>
        LET c == call.arg
            r == result.out
        IN /\ ~r.raised
           /\ (~c.exists \/ ~c.openOk \/ c.json = "invalid") => r.value = {}
           /\ (c.exists /\ (~c.openOk \/ c.json = "invalid")) => r.logged
           /\ (c.exists /\ c.openOk /\ c.json = "object" /\ c.key) =>
                  /\ r.value = {c.ids[i] : i \in 1..Len(c.ids)}
                  /\ ~r.logged

C11_Witness ==
    /\ result.fn = "load_processed_files"
    /\ call.arg.exists
    /\ call.arg.json = "invalid"
    /\ result.out.logged
    /\ result.out.value = {}

\* C12: a document whose conversion fails (download error, bytes that are not
\* UTF-8, unsupported type, empty body) is skipped: it is in neither article
\* list, its id is not added to the in-memory set nor to the ledger file (so
\* the next run takes it as new again), and the documents listed after it
\* are still downloaded.
C12_FailedConversionSkipped ==
    /\ failed \cap Range(all_articles) = {}
    /\ failed \cap Range(new_articles) = {}
    /\ (failed \cap processed_files) \subseteq loaded
    /\ (failed \cap Durable(file)) \subseteq Durable(startFile)
    /\ pc \in {"save_open", "save_write", "returned"} => downloaded = Range(files)

C12_Witness ==
    /\ pc = "returned"
    /\ file.state = "valid"
    /\ \E i, j \in 1..Len(files) :
        /\ i < j
        /\ files[i] \in failed
        /\ files[i] \notin Durable(file)
        /\ files[j] \in Range(new_articles)
        /\ files[j] \in Durable(file)

\* a config.csv that lacks a required credential: the file is absent, or one
\* of its columns is missing or empty
ConfigIncomplete(c) == ~c.exists \/ \E f \in CsvFields : c.row[f] # "set"

\* the DeployManager process has ended
DeployerExited == dpc = "off" /\ exitCode # "none"

\* C13: the exit status is 0 exactly when at least one publish target reported
\* a successful publish in the run, and non-zero when every publish failed or
\* none was attempted.
C13_ExitZeroIffPublished ==
    DeployerExited => (exitCode = "0" <=> succeeded # {})

\* C14: with a required credential missing from the configuration, the run
\* ends with a non-zero exit and no request is sent to any service.
C14_ConfigErrorBeforeNetwork ==
    ConfigIncomplete(csv) =>
        /\ network = {}
        /\ DeployerExited => exitCode = "1"

\* C17: after any sequence of runs the sitemap lists every URL a successful
\* publish returned, in this run or an earlier one.
C17_SitemapAdditive ==
    dpc = "off" => returned \subseteq (Range(sitemap.netlify) \cup Range(sitemap.vercel))

\* C16: a publish failure on one target does not stop the run: when main has
\* ended, every target whose partition was not empty has been attempted.
C16_OtherTargetsStillAttempted ==
    MainEnded => prev.nonempty \subseteq attempted

\* every paginated listing that meets a failed request, on whatever page,
\* returns the empty list
PartialListingDiscarded ==
    \A ps \in PageRuns : ListingFails(ps) => get_drive_files(ps) = <<>>

\* C15: when listing the folder fails, on the first or a later page, the
\* listing returns the empty list; the run converts no document, leaves the
\* ledger as it was, publishes nothing and ends with failure.
C15_ListingFailureAbortsRun ==
    /\ PartialListingDiscarded
    /\ get_files_from_folder(FALSE) = <<>>
    /\ listing = "failed" =>
        /\ pc = "idle"
        /\ prev.end = "False"
        /\ prev.at = "list"
        /\ downloaded = {}
        /\ file = startFile
        /\ attempted = {}
        /\ githubPublishes = 0

C15_Witness ==
    /\ listing = "failed"
    /\ folder # <<>>
    /\ Durable(file) # {}
    /\ prev.end = "False"

\* C18: every publish of a partition of n articles with different ids gives
\* n + 1 files, one of them the index page, and the index page has exactly
\* one entry per article (text = its name, href = its file), in partition
\* order.
C18_OneIndexPerPublish ==
    result.fn \in SiteFunctions =>
        /\ Cardinality(result.out.files) = Len(call.arg) + 1
        /\ result.out.hasIndex
        /\ "index.html" \in result.out.files
        /\ result.out.index = IndexEntries(call.arg)

\* C19: a footer operation applied to an article that already carries a
\* generated footer (the output of an earlier application) gives an article
\* with exactly one footer block.
C19_FooterIdempotent ==
    (result.fn \in FooterFunctions /\ result.times = 2 /\ result.before.footers >= 1)
        => result.out.footers = 1

\* the download phase of load_articles_from_drive, ledger save included
Converting == pc \in {"main", "list", "loop", "save_open", "save_write", "returned"}

\* C20: within a run the phases do not overlap: while documents are being
\* converted or the ledger is being saved nothing has been distributed or
\* published; once distribute_articles has returned, every listed document
\* has been downloaded and the save is over; a publish call is only made
\* after distribute_articles returned.
C20_PhasesInOrder ==
    /\ Converting => (distributed_articles = NoPartition /\ attempted = {})
    /\ distributed_articles # NoPartition =>
        /\ Distributed
        /\ downloaded = Range(files)
        /\ idx = Len(files) + 1
    /\ (pc # "idle" /\ attempted # {}) => distributed_articles # NoPartition

C20_Witness ==
    /\ pc = "for"
    /\ Len(files) >= 2
    /\ downloaded = Range(files)
    /\ "netlify" \in attempted
    /\ distributed_articles.netlify # <<>>

\* ---------------------------------------------------------------------------
\* The script around main(config), lines 1918-1947: the value of main, or the
\* exception it raised, becomes the exit status of the process.
MainOutcomes == {"True", "False", "TypeError"}

ScriptExit(outcome) ==
    IF outcome = "True" THEN "0"      \* falls off the end of the script
    ELSE "1"                          \* exit(1) at line 1941 or at line 1947

ExitStatuses == {"0", "1"}

DuplicateSelection == \E d \in RaceDocs : result.selected[d] = Runs

\* an id that a completed save wrote is no longer in the ledger, and nobody
\* is about to write it
LostId ==
    /\ \A r \in Runs : ~Active(call[r])
    /\ \E d \in result.saved : d \notin load_processed_files(file)

\* C22: with two processes on the same ledger file the guarantees of a single
\* process can be broken: there is an interleaving in which both take the same
\* document as new, and one in which an id written by one process is
\* overwritten and lost by the other (C22_Witness).  While every save
\* succeeds this happens only when the two processes overlapped.
C22_BrokenOnlyByOverlap ==
    pc = "race" /\ (DuplicateSelection \/ LostId)
        => result.overlapped \/ result.saveFailed

\* both took document d as new, and an id one of them saved was lost to the
\* save of the other, every save having succeeded
C22_Witness ==
    /\ pc = "race"
    /\ DuplicateSelection
    /\ LostId
    /\ result.overlapped
    /\ ~result.saveFailed

\* the attempts make_api_request is allowed, and the first of them answered
\* 200 or 201
Allowed == 1..MAX_RETRIES

Succeeding(answers) == {k \in Allowed : answers[k] \in StatusOk}

FirstSuccess(answers) ==
    CHOOSE k \in Succeeding(answers) : \A j \in Succeeding(answers) : k <= j

\* the waits between attempts: 1 s after the first, 2 s after the second
Waits == <<1, 2>>

C24_NoRetryAfterAuthOrRejection ==
    pc = "fn" /\ result # NoResult /\ result.fn = "make_api_request"
              /\ call.arg[1] \in AuthFailures \cup Rejections =>
        /\ result.out.attempts = 1
        /\ result.out.value = NoBody

\* the footer of article `article` of a site of `site` articles is as the
\* rule of the footers has it
FooterAsRuled(site, article, footer, links) ==
    IF site = 1 THEN ~footer
    ELSE /\ footer
         /\ \E k \in LinkCounts : Len(links) = Min(k, site - 1)
         /\ \A i, j \in 1..Len(links) : i # j => links[i] # links[j]
         /\ \A i \in 1..Len(links) :
                /\ ~links[i].cross
                /\ links[i].id \in 1..site
                /\ links[i].id # article

\* C25: the footer of each article of a partition links to k other articles
\* of the same partition, k drawn from 4..6 and clamped to the number of
\* siblings; the linked articles are pairwise distinct, belong to the
\* partition and never include the article itself; an article without
\* sibling gets no footer.
C25_FooterLinksSiblings ==
    pc = "fn" /\ result # NoResult /\ result.fn = "footer links" =>
        FooterAsRuled(call.site, call.article, result.footer, result.links)

\* a conversion was applied to bytes that arrived
Converted == pc = "fn" /\ result # NoResult /\ result.fn = "convert" /\ call.arg.mediaOk

\* C26: a PlainText document whose decoded text starts with an HTML marker is
\* returned unchanged; any other text is returned inside the skeleton, which
\* starts with a doctype declaration and holds the text verbatim in a <pre>
\* block of the body ('hello' gives such a document).
C26_PlainTextWrapped ==
    Converted /\ call.arg.mimeType = "text/plain" /\ call.arg.bytes # BadUtf8Body =>
        result.out = IF StartsWithHtml(call.arg.bytes) THEN Str(call.arg.bytes)
                     ELSE Wrapped(call.arg.bytes)

\* C27: a document of mime type text/html is returned identical to the bytes
\* that arrived, for every input and without validation; so is the export of
\* a Google document.
C27_HtmlVerbatim ==
    Converted /\ call.arg.mimeType \in {"text/html", "application/vnd.google-apps.document"} =>
        result.out = Str(call.arg.bytes)

\* the loop of load_articles_from_drive is over
LoopOver == pc \in {"save_open", "save_write", "returned"}

RunReturned == DeployerExited /\ returnValue \in {"True", "False"}

\* C29: DeployManager.run leaves the working environment as it found it on
\* every exit path: when it has returned, True or False, the current working
\* directory is the one of before the call and the temp_<timestamp> directory
\* no longer exists.
C29_EnvironmentRestored ==
    RunReturned => (cwd = "base" /\ ~temp_dir)

\* the positions of the trace at which the call was made, with one of the
\* given outcomes
Calls(name, outcomes) ==
    {i \in 1..Len(trace) : trace[i].call = name /\ trace[i].gave \in outcomes}

Before(I, i) == \E j \in I : j < i

AnyOutcome == {"repo", "None", "raise", "pushed", "local step failed", "push failed", "url"}

\* C30: the steps of DeployManager.run are gated on one another: no repository
\* is created when no article was selected, no git push happens unless the
\* repository was created, Netlify and Vercel are called only after the push
\* succeeded, Netlify before Vercel, and a URL is appended to netlify_sites or
\* vercel_sites only when the deploy call of that platform returned one.
C30_StepsGated ==
    dpc # "off" \/ DeployerExited =>
        /\ Calls("create_repo", AnyOutcome) # {} => run_articles > 0
        /\ \A i \in Calls("git", {"pushed", "push failed"}) :
                Before(Calls("create_repo", {"repo"}), i)
        /\ \A i \in Calls("deploy_to_netlify", AnyOutcome) :
                Before(Calls("git", {"pushed"}), i)
        /\ \A i \in Calls("deploy_to_vercel", AnyOutcome) :
                /\ Before(Calls("git", {"pushed"}), i)
                /\ Before(Calls("deploy_to_netlify", AnyOutcome), i)
        /\ Len(netlify_sites) = Cardinality(Calls("deploy_to_netlify", {"url"}))
        /\ Len(vercel_sites) = Cardinality(Calls("deploy_to_vercel", {"url"}))

====
